---- MODULE Spec2Model ----
(***************************************************************************)
(* Model of the TaskCreationHelper C++ helper library:                     *)
(*   tchio.hpp   - Data<t, dimension>: wire codec (get / put) and the      *)
(*                 foreign-function converter (convert_cpp_c,              *)
(*                 convert_c_cpp, superfree)                               *)
(*   tchrand.hpp - the process-wide random engine                          *)
(*                                                                         *)
(* Streams are modelled as sequences of one-character strings, so that     *)
(* operator<< and operator>> are modelled by what they do to the text.     *)
(* A std::size_t value is represented by its two's-complement reading: a   *)
(* negative number s stands for 2^64 + s.                                  *)
(***************************************************************************)
EXTENDS Integers, Sequences, FiniteSets, TLC

VARIABLES
    charSigned,   \* the build's choice: is plain char a signed type
    out,          \* the std::ostream the generator writes: its text so far
    written,      \* the put made on out, [t, n, v, rect, exc], or NoCall
    inp,          \* the std::istream a reader reads, see IStream
    got,          \* outcome of the last Data<t,n>::get call, or NoCall
    mem,          \* the heap: [bufs, bad], the buffers and the memory errors
    held,         \* the convert_cpp_c results not yet passed to superfree
    last,         \* outcome of the last call of the converter, or NoCall
    eng,          \* TCH::mersenneTwister of each run of the program
    seeded,       \* per run: has a seed call with a non-empty list completed
    script,       \* the list both runs seeded with and have been called
                  \* alike since, or <<>>
    ret,          \* outcome of the last call of tchrand.hpp, or NoCall
    rows,         \* the two-level array a validator is given
    rect,         \* outcome of the last validateRectangle call, or NoCall
    input,        \* the vector validate of SortTheList is called with
    stmt,         \* where validate is: "idle", "size", "loop", "returned",
                  \* "thrown"
    idx,          \* validate's loop variable i
    asserted,     \* the TCH::assert calls validate has made, in order
    thrown        \* the exception validate has thrown, or NoThrow

ioVars == <<charSigned, out, written, inp, got>>

ffiVars == <<mem, held, last>>

randVars == <<eng, seeded, script, ret>>

checkVars == <<input, stmt, idx, asserted, thrown>>

valVars == <<rows, rect, checkVars>>

vars == <<ioVars, ffiVars, randVars, valVars>>

----------------------------------------------------------------------------
(* Bounds of the model *)

\* longest array (at every level) and longest string the generator builds
MaxLen == 2
\* most tokens of a hand-made input stream
MaxTokens == 3
\* largest value an uninitialized integer is allowed to show
MaxJunk == 1
\* most convert_cpp_c results a caller holds at a time
MaxHeld == 1
\* addresses in a region of the heap
Region == 12
\* bits of a word of the random engine
WordBits == 3
\* largest bound of randint, largest size of a permutation
MaxSize == 3
\* most rows of the array given to validateRectangle
MaxRows == 3
\* largest size of a permutation when the engine may draw anything
MaxPerm == 4

----------------------------------------------------------------------------
(* Text: characters, decimal formatting of integers *)

NoCall == [kind |-> "none"]

WS == {" ", "\n"}

Digits == <<"0", "1", "2", "3", "4", "5", "6", "7", "8", "9">>

IsDigit(c) == \E d \in 1..10 : Digits[d] = c

DigitVal(c) == (CHOOSE d \in 1..10 : Digits[d] = c) - 1

RECURSIVE FormatNat(_)
\* decimal text of a non-negative integer, as operator<< prints it
FormatNat(n) ==
    IF n < 10 THEN <<Digits[n + 1]>>
    ELSE FormatNat(n \div 10) \o <<Digits[(n % 10) + 1]>>

\* operator<<(int)
FormatInt(n) == IF n < 0 THEN <<"-">> \o FormatNat(-n) ELSE FormatNat(n)

RECURSIVE Pow10(_)
Pow10(k) == IF k = 0 THEN 1 ELSE 10 * Pow10(k - 1)

RECURSIVE NumDigits(_)
NumDigits(n) == IF n < 10 THEN 1 ELSE 1 + NumDigits(n \div 10)

RECURSIVE StripZeros(_)
\* n without its trailing decimal zeros (n > 0)
StripZeros(n) == IF n % 10 = 0 THEN StripZeros(n \div 10) ELSE n

RECURSIVE TrailingZeros(_)
TrailingZeros(n) == IF n % 10 = 0 THEN 1 + TrailingZeros(n \div 10) ELSE 0

RECURSIVE Zeros(_)
Zeros(k) == IF k <= 0 THEN <<>> ELSE <<"0">> \o Zeros(k - 1)

----------------------------------------------------------------------------
(* operator<<(double): the default floatfield with the default precision.  *)
(* A real is [m, e], the decimal number m * 10^e, with m = 0 => e = 0 and  *)
(* m # 0 => m not divisible by 10.                                         *)

\* std::ios_base's default precision, which put never changes
Precision == 6

Abs(n) == IF n < 0 THEN -n ELSE n

Real(mant, ex) ==
    IF mant = 0 THEN [m |-> 0, e |-> 0]
    ELSE [m |-> (IF mant < 0 THEN -1 ELSE 1) * StripZeros(Abs(mant)),
          e |-> ex + TrailingZeros(Abs(mant))]

\* a / d rounded to the nearest integer, ties to even
RoundHalfEven(a, d) ==
    LET q == a \div d
        r == a % d
    IN  IF 2 * r > d \/ (2 * r = d /\ q % 2 = 1) THEN q + 1 ELSE q

\* the digits kept by operator<<: at most Precision significant digits
KeptDigits(a) ==
    IF NumDigits(a) > Precision
    THEN RoundHalfEven(a, Pow10(NumDigits(a) - Precision))
    ELSE a

FormatReal(x) ==
    IF x.m = 0 THEN <<"0">>
    ELSE
      LET a    == Abs(x.m)
          r    == KeptDigits(a)
          X    == NumDigits(a) - 1 + x.e
                    + (IF NumDigits(a) > Precision /\ r = Pow10(Precision)
                       THEN 1 ELSE 0)
          ds   == FormatNat(StripZeros(r))
          sign == IF x.m < 0 THEN <<"-">> ELSE <<>>
      IN  IF X < -4 \/ X >= Precision
          THEN sign \o <<ds[1]>>
                 \o (IF Len(ds) > 1 THEN <<".">> \o Tail(ds) ELSE <<>>)
                 \o <<"e", IF X < 0 THEN "-" ELSE "+">>
                 \o (IF Abs(X) < 10 THEN <<"0">> ELSE <<>>)
                 \o FormatNat(Abs(X))
          ELSE IF X >= 0
          THEN IF Len(ds) <= X + 1
               THEN sign \o ds \o Zeros(X + 1 - Len(ds))
               ELSE sign \o SubSeq(ds, 1, X + 1) \o <<".">>
                         \o SubSeq(ds, X + 2, Len(ds))
          ELSE sign \o <<"0", ".">> \o Zeros(-X - 1) \o ds

----------------------------------------------------------------------------
(* operator>>: formatted extraction from a std::istream.                   *)
(* An istream is [buf, pos, fail, eof, negpos]: its text, the index of the *)
(* next character, failbit and eofbit; negpos is a history field, the      *)
(* position right after the first negative array size read from the stream *)
(* (0 when none was).  An extraction returns the stream after it, whether  *)
(* the target variable was assigned, and the value assigned.               *)

IStream(text) ==
    [buf |-> text, pos |-> 1, fail |-> FALSE, eof |-> FALSE, negpos |-> 0]

RECURSIVE SkipWs(_, _)
SkipWs(buf, p) ==
    IF p <= Len(buf) /\ buf[p] \in WS THEN SkipWs(buf, p + 1) ELSE p

RECURSIVE DigitsEnd(_, _)
\* the first position from p on that holds no digit
DigitsEnd(buf, p) ==
    IF p <= Len(buf) /\ IsDigit(buf[p]) THEN DigitsEnd(buf, p + 1) ELSE p

RECURSIVE WordEnd(_, _)
\* the first position from p on that holds whitespace (or the end)
WordEnd(buf, p) ==
    IF p <= Len(buf) /\ buf[p] \notin WS THEN WordEnd(buf, p + 1) ELSE p

RECURSIVE NatOf(_)
\* the number a sequence of digits spells
NatOf(ds) ==
    IF ds = <<>> THEN 0
    ELSE 10 * NatOf(SubSeq(ds, 1, Len(ds) - 1)) + DigitVal(ds[Len(ds)])

Unset(in) == [in |-> in, set |-> FALSE, val |-> 0]

\* the stream after the sentry skipped whitespace up to position p
SentryAt(in, p) ==
    IF p > Len(in.buf)
    THEN [in EXCEPT !.pos = p, !.fail = TRUE, !.eof = TRUE]
    ELSE [in EXCEPT !.pos = p]

\* the sentry: a stream that already failed, or holds only whitespace
Sentry(in) ==
    IF in.fail THEN in ELSE SentryAt(in, SkipWs(in.buf, in.pos))

\* the position after an optional sign at p
SignEnd(buf, p) == IF buf[p] \in {"-", "+"} THEN p + 1 ELSE p

\* the sign at p, as a factor
SignAt(buf, p) == IF buf[p] = "-" THEN -1 ELSE 1

\* the stream s after an extraction that stopped at position q
StoppedAt(s, q, failed) ==
    [s EXCEPT !.pos = q, !.fail = failed, !.eof = q > Len(s.buf)]

\* the digits of s from d0 up to d1 read as an integer
IntValue(s, d0, d1) ==
    IF d1 = d0
    THEN [in |-> StoppedAt(s, d0, TRUE), set |-> TRUE, val |-> 0]
    ELSE [in  |-> StoppedAt(s, d1, FALSE),
          set |-> TRUE,
          val |-> SignAt(s.buf, s.pos) * NatOf(SubSeq(s.buf, d0, d1 - 1))]

IntDigits(s, d0) == IntValue(s, d0, DigitsEnd(s.buf, d0))

IntFrom(s) ==
    IF s.fail THEN Unset(s) ELSE IntDigits(s, SignEnd(s.buf, s.pos))

\* operator>>(int&) and operator>>(size_t&): an optional sign and digits.
\* For size_t the sign is accepted and the result negated modulo 2^64.
ExtractInt(in) == IntFrom(Sentry(in))

\* the real spelled by the digits d0..d1-1 and f0..f1-1 of s, with the
\* exponent digits x0..x1-1 if there are any
RealValue(s, d0, d1, f0, f1, x0, x1) ==
    IF (d1 - d0) + (f1 - f0) = 0
    THEN [in |-> StoppedAt(s, f0, TRUE), set |-> TRUE, val |-> Real(0, 0)]
    ELSE IF f1 <= Len(s.buf) /\ s.buf[f1] = "e" /\ x1 > x0
    THEN [in  |-> StoppedAt(s, x1, FALSE),
          set |-> TRUE,
          val |-> Real(SignAt(s.buf, s.pos)
                         * NatOf(SubSeq(s.buf, d0, d1 - 1)
                                   \o SubSeq(s.buf, f0, f1 - 1)),
                       SignAt(s.buf, x0 - 1) * NatOf(SubSeq(s.buf, x0, x1 - 1))
                         - (f1 - f0))]
    ELSE [in  |-> StoppedAt(s, f1, FALSE),
          set |-> TRUE,
          val |-> Real(SignAt(s.buf, s.pos)
                         * NatOf(SubSeq(s.buf, d0, d1 - 1)
                                   \o SubSeq(s.buf, f0, f1 - 1)),
                       -(f1 - f0))]

\* the exponent digits start at x0
RealExpDigits(s, d0, d1, f0, f1, x0) ==
    RealValue(s, d0, d1, f0, f1, x0, DigitsEnd(s.buf, x0))

\* the fraction digits end at f1: an "e" and an optional sign may follow
RealExp(s, d0, d1, f0, f1) ==
    RealExpDigits(s, d0, d1, f0, f1,
                  IF f1 + 1 <= Len(s.buf) THEN SignEnd(s.buf, f1 + 1)
                  ELSE f1 + 1)

\* the fraction digits start at f0
RealFracDigits(s, d0, d1, f0) == RealExp(s, d0, d1, f0, DigitsEnd(s.buf, f0))

\* the integer digits end at d1: a "." may follow
RealFrac(s, d0, d1) ==
    RealFracDigits(s, d0, d1,
                   IF d1 <= Len(s.buf) /\ s.buf[d1] = "." THEN d1 + 1 ELSE d1)

RealDigits(s, d0) == RealFrac(s, d0, DigitsEnd(s.buf, d0))

RealFrom(s) ==
    IF s.fail THEN Unset(s) ELSE RealDigits(s, SignEnd(s.buf, s.pos))

\* operator>>(double&): [sign] digits [. digits] [e [sign] digits]
ExtractReal(in) == RealFrom(Sentry(in))

\* the word of s that ends before position q
WordValue(s, q) ==
    [in  |-> StoppedAt(s, q, FALSE),
     set |-> TRUE,
     val |-> SubSeq(s.buf, s.pos, q - 1)]

WordFrom(s) ==
    IF s.fail THEN [in |-> s, set |-> FALSE, val |-> <<>>]
    ELSE WordValue(s, WordEnd(s.buf, s.pos))

\* operator>>(std::string&): the characters up to the next whitespace
ExtractString(in) == WordFrom(Sentry(in))

----------------------------------------------------------------------------
(* validateRectangle *)

\* a validateRectangle that looks at the first row and the last row only
RectLoopLast(val, r) == Len(val) <= 1 \/ Len(val[Len(val)]) = Len(val[1])

RECURSIVE RectLoop(_, _)
\* "for(r = 1; r < val.size(); r++) if(val[r].size() != val[0].size())
\* return false;" from r on (rows counted from 0), then "return true"
RectLoop(val, r) ==
    IF r >= Len(val) THEN TRUE
    ELSE IF Len(val[r + 1]) # Len(val[1]) THEN FALSE
    ELSE RectLoop(val, r + 1)

ValidateRectangle(val) == RectLoop(val, 1)

----------------------------------------------------------------------------
(* TCH::format and TCH::assert.  A message is the sequence of its           *)
(* characters, args the sequence of the int arguments after it.  Of the     *)
(* conversions of printf, %d and %% are modelled.                           *)

NoThrow == [exc |-> FALSE, what |-> <<>>]

RECURSIVE Expand(_, _)
\* what printf makes of message and args
Expand(message, args) ==
    IF message = <<>> THEN <<>>
    ELSE IF Head(message) = "%" /\ Len(message) >= 2 /\ message[2] = "d"
    THEN FormatInt(Head(args))
             \o Expand(SubSeq(message, 3, Len(message)), Tail(args))
    ELSE IF Head(message) = "%" /\ Len(message) >= 2 /\ message[2] = "%"
    THEN <<"%">> \o Expand(SubSeq(message, 3, Len(message)), args)
    ELSE <<Head(message)>> \o Expand(Tail(message), args)

\* snprintf(buf, size, message, args ...): [n, buf], the length of the
\* whole expansion and the characters stored before the '\0', at most
\* size - 1 of them
Snprintf(size, message, args) ==
    [n   |-> Len(Expand(message, args)),
     buf |-> IF size - 1 < Len(Expand(message, args))
             THEN SubSeq(Expand(message, args), 1, size - 1)
             ELSE Expand(message, args)]

\* the string format returns for a buffer of size bytes, or the message
\* of the exception it throws
Formatted(size, message, args) ==
    IF size <= 0 THEN
        <<"E", "r", "r", "o", "r", " ", "d", "u", "r", "i", "n", "g", " ",
          "f", "o", "r", "m", "a", "t", "t", "i", "n", "g", ".">>
    ELSE SubSeq(Snprintf(size, message, args).buf, 1, size - 1)

\* TCH::format(message, args ...)
Format(message, args) ==
    Formatted(Snprintf(0, message, args).n + 1, message, args)

\* an assert that lets a false condition pass
assertNever(condition, message, args) == NoThrow

\* TCH::assert(condition, message, args ...): the exception thrown
assert(condition, message, args) ==
    IF ~condition THEN [exc |-> TRUE, what |-> Format(message, args)]
    ELSE NoThrow

----------------------------------------------------------------------------
(* Data<t, dimension>::get.  A call returns [in, exc, val]: the stream     *)
(* after it, the exception it threw ("none" when it returned) and the      *)
(* value it returned.  junk is what an uninitialized variable holds.       *)

Returns(in, v) == [in |-> in, exc |-> "none", val |-> v]

Throws(in, what) == [in |-> in, exc |-> what, val |-> <<>>]

TrueText == <<"t", "r", "u", "e">>

FalseText == <<"f", "a", "l", "s", "e">>

\* (char)x for an int x: the byte x mod 256, written as 0..255
ToChar(x) == x % 256

\* (int)c for a char c holding byte b
CharToInt(b) == IF charSigned /\ b >= 128 THEN b - 256 ELSE b

\* "return value" after the extraction e: the value assigned, else what
\* the variable held
Returned(e, held0) == Returns(e.in, IF e.set THEN e.val ELSE held0)

\* Data<int,0>::get, Data<size_t,0>::get, Data<double,0>::get: "value" is
\* declared without an initializer and returned whatever operator>> did
PrimaryGet(t, in, junk) ==
    IF t = "real" THEN Returned(ExtractReal(in), Real(junk, 0))
    ELSE Returned(ExtractInt(in), junk)

\* a bool conversion that takes every word but "true" for false
BoolOfLenient(e) == Returns(e.in, e.val = TrueText)

\* the word e extracted, as a bool
BoolOf(e) ==
    IF e.val # TrueText /\ e.val # FalseText
    THEN Throws(e.in, "Boolean parsing failed")
    ELSE Returns(e.in, e.val = TrueText)

\* Data<bool,0>::get
BoolGet(in) == BoolOf(ExtractString(in))

\* the int r read, converted to char
CharOf(r) == Returns(r.in, ToChar(r.val))

\* one "(char)Data<int,0>::get(in)" of Data<std::string,0>::get
CharGet(in, junk) == CharOf(PrimaryGet("int", in, junk))

\* the sequence half twice, and x once more if k is odd
Twice(half, x, k) == half \o half \o (IF k % 2 = 1 THEN <<x>> ELSE <<>>)

RECURSIVE Repeat(_, _)
\* k copies of x
Repeat(x, k) == IF k <= 0 THEN <<>> ELSE Twice(Repeat(x, k \div 2), x, k)

RECURSIVE Get(_, _, _, _)
RECURSIVE GetLoop(_, _, _, _, _, _)
RECURSIVE GetNext(_, _, _, _, _, _, _)
\* the loop after one element was read from in with outcome r.  Once the
\* stream has failed every further element reads the same: the remaining
\* size elements are appended at once, unless size is one of the values
\* 2^64 + size (size < 0), which no allocation can hold.
GetNext(t, n, in, size, acc, junk, r) ==
    IF r.exc # "none" THEN r
    ELSE IF ~in.fail
    THEN GetLoop(t, n, r.in, size - 1, Append(acc, r.val), junk)
    ELSE IF size < 0 THEN Throws(r.in, "bad_alloc")
    ELSE Returns(r.in, acc \o Repeat(r.val, size))

\* "while(size--) result.push_back(Data<t, n-1>::get(in))"
GetLoop(t, n, in, size, acc, junk) ==
    IF size = 0 THEN Returns(in, acc)
    ELSE GetNext(t, n, in, size, acc, junk, Get(t, n - 1, in, junk))

\* the elements after the size s was read
StringChars(s, junk) == GetLoop("char", 1, s.in, s.val, <<>>, junk)

\* Data<std::string,0>::get: a size, then that many character codes
StringGet(in, junk) == StringChars(PrimaryGet("size_t", in, junk), junk)

\* the stream in after the size token e was extracted, with the position
\* noted if the token is the first negative size of the stream
Marked(in, e) ==
    IF e.set /\ e.val < 0 /\ in.negpos = 0
    THEN [in EXCEPT !.negpos = in.pos]
    ELSE in

\* the elements after the size s was read, e being its extraction
ArrayElems(t, n, s, e, junk) ==
    GetLoop(t, n, Marked(s.in, e), s.val, <<>>, junk)

\* Data<t, n>::get for n >= 1: a size, then that many Data<t, n-1>
ArrayGet(t, n, in, junk) ==
    ArrayElems(t, n, PrimaryGet("size_t", in, junk), ExtractInt(in), junk)

Get(t, n, in, junk) ==
    IF n > 0 THEN ArrayGet(t, n, in, junk)
    ELSE IF t = "char" THEN CharGet(in, junk)
    ELSE IF t = "string" THEN StringGet(in, junk)
    ELSE IF t = "bool" THEN BoolGet(in)
    ELSE PrimaryGet(t, in, junk)

----------------------------------------------------------------------------
(* Data<t, dimension>::put: the text appended to the stream *)

Line(text) == text \o <<"\n">>

\* Data<t,0>::put for int, size_t and double: "out << data << '\n'"
PrimaryPut(t, v) ==
    IF t = "real" THEN Line(FormatReal(v)) ELSE Line(FormatInt(v))

\* Data<bool,0>::put
BoolPut(v) == Line(IF v THEN TrueText ELSE FalseText)

RECURSIVE Put(_, _, _)
RECURSIVE PutAll(_, _, _)
\* the elements of data, each put in order
PutAll(t, n, data) ==
    IF data = <<>> THEN <<>>
    ELSE Put(t, n, Head(data)) \o PutAll(t, n, Tail(data))

\* one "Data<int,0>::put(out, (int)c)" of Data<std::string,0>::put
CharPut(c) == PrimaryPut("int", CharToInt(c))

\* Data<std::string,0>::put: the length, then each character's code
StringPut(v) == PrimaryPut("size_t", Len(v)) \o PutAll("char", 0, v)

\* Data<t, n>::put for n >= 1: the size, then each element
ArrayPut(t, n, v) == PrimaryPut("size_t", Len(v)) \o PutAll(t, n - 1, v)

Put(t, n, v) ==
    IF n > 0 THEN ArrayPut(t, n, v)
    ELSE IF t = "char" THEN CharPut(v)
    ELSE IF t = "string" THEN StringPut(v)
    ELSE IF t = "bool" THEN BoolPut(v)
    ELSE PrimaryPut(t, v)

----------------------------------------------------------------------------
(* The values a generator builds and the streams a reader is given *)

SeqsUpTo(S, k) == UNION {[1..j -> S] : j \in 0..k}

Types == {"int", "bool", "string", "real"}

Dims == 0..3

StrBytes == {0, 65, 200, 255}

\* two elements of each type, the first one the type's zero
ElemA(t) ==
    CASE t = "int" -> 0
      [] t = "bool" -> FALSE
      [] t = "real" -> Real(0, 0)
      [] t = "string" -> <<65, 0, 66>>

ElemB(t) ==
    CASE t = "int" -> -7
      [] t = "bool" -> TRUE
      [] t = "real" -> Real(15, -1)
      [] t = "string" -> <<200>>

Scalars(t) ==
    CASE t = "int" -> {0, -7, 305}
      [] t = "bool" -> {FALSE, TRUE}
      [] t = "real" -> {Real(0, 0), Real(15, -1), Real(-25, -2),
                        Real(1234567, 0), Real(1234567, -7),
                        Real(25, 9), Real(1234, -8), Real(9999996, -3)}
      [] t = "string" -> SeqsUpTo(StrBytes, MaxLen)

\* the elements arrays are built from, at each dimension
Reps(t, n) ==
    LET a == ElemA(t)
        b == ElemB(t)
    IN  CASE n = 0 -> IF t = "string" THEN {<<>>, a, b} ELSE Scalars(t)
          [] n = 1 -> {<<>>, <<a, b>>, <<b, a>>}
          [] n = 2 -> {<<>>, << <<>>, <<b, a>> >>,
                       << <<a, b>>, <<b, a>> >>}
          [] n = 3 -> {<<>>,
                       << << <<b>>, <<>> >>, <<>>, << <<a, b>> >> >>}

Values(t, n) == IF n = 0 THEN Scalars(t) ELSE SeqsUpTo(Reps(t, n - 1), MaxLen)

TokenSet ==
    { <<"0">>, <<"2">>, <<"-", "1">>, <<"3", "0", "0">>,
      TrueText, <<"m", "a", "y", "b", "e">>, <<"1", ".", "5">> }

RECURSIVE Lines(_)
Lines(ts) == IF ts = <<>> THEN <<>> ELSE Line(Head(ts)) \o Lines(Tail(ts))

\* more tokens a reader of bool may meet
BoolTokens == { FalseText, <<"1">>, <<"T", "r", "u", "e">> }

Feeds ==
    { Lines(ts) : ts \in SeqsUpTo(TokenSet, MaxTokens) }
        \cup { Lines(ts) : ts \in SeqsUpTo(BoolTokens, MaxTokens - 1) }

----------------------------------------------------------------------------
(* The wire codec: a generator puts one value, a reader gets values *)

\* a heap with no buffer in use
EmptyHeap == [bufs |-> <<>>, bad |-> {}]

\* what a caller of get or put may want of a two-level array: get and put
\* take no such argument (they are given the stream, and put the value)
RectChoice(n) == IF n = 2 THEN BOOLEAN ELSE {FALSE}

\* the two runs of the program
Runs == {1, 2}

\* 2^k
RECURSIVE Pow2(_)
Pow2(k) == IF k = 0 THEN 1 ELSE 2 * Pow2(k - 1)

\* number of values of a word of the engine (2^64 in std::mt19937_64)
Modulus == Pow2(WordBits)

\* the state of a default-constructed engine: seeded with default_seed
DefaultState == 5489 % Modulus

\* no validator is running
\* validate of SortTheList is not running
CheckIdle ==
    /\ input = <<>>
    /\ stmt = "idle"
    /\ idx = 0
    /\ asserted = <<>>
    /\ thrown = NoThrow

ValIdle ==
    /\ rows = <<>>
    /\ rect = NoCall
    /\ CheckIdle

\* no run has touched its random engine
RandIdle ==
    /\ eng = [r \in Runs |-> DefaultState]
    /\ seeded = [r \in Runs |-> FALSE]
    /\ script = <<>>
    /\ ret = NoCall

\* the foreign-function converter is not in use
FfiIdle ==
    /\ mem = EmptyHeap
    /\ held = <<>>
    /\ last = NoCall

InitIO ==
    /\ FfiIdle
    /\ RandIdle
    /\ ValIdle
    /\ charSigned \in BOOLEAN
    /\ out = <<>>
    /\ written = NoCall
    /\ inp \in {IStream(text) : text \in Feeds}
    /\ got = NoCall

\* the generator calls Data<t,n>::put(out, v) on its empty output stream
PutCall ==
    /\ out = <<>>
    /\ inp.buf = <<>>
    /\ \E t \in Types, n \in Dims :
         \E v \in Values(t, n), wantRect \in RectChoice(n) :
            /\ out' = out \o Put(t, n, v)
            /\ written' = [kind |-> "put", t |-> t, n |-> n, v |-> v,
                           rect |-> wantRect, exc |-> "none"]
    /\ UNCHANGED <<charSigned, inp, got, ffiVars, randVars, valVars>>

\* the driver hands the generator's output to the reader as its input
Pipe ==
    /\ out # <<>>
    /\ inp.buf = <<>>
    /\ inp' = IStream(out)
    /\ UNCHANGED <<charSigned, out, written, got, ffiVars, randVars,
                   valVars>>

\* Data<t,n>::get(in) has ended with outcome r
GetDone(t, n, wantRect, r) ==
    /\ inp' = r.in
    /\ got' = [kind |-> "get", t |-> t, n |-> n, before |-> inp,
               after |-> r.in, exc |-> r.exc, val |-> r.val,
               rect |-> wantRect]

\* the reader calls Data<t,n>::get(in), once, with the type and dimension
\* of the value put if the stream is a generator's output
GetCall ==
    /\ got = NoCall
    /\ \E t \in Types, n \in Dims, junk \in -1..MaxJunk :
         \E wantRect \in RectChoice(n) :
           /\ written.kind = "put" => (t = written.t /\ n = written.n)
           /\ GetDone(t, n, wantRect, Get(t, n, inp, junk))
    /\ UNCHANGED <<charSigned, out, written, ffiVars, randVars, valVars>>

NextIO == PutCall \/ Pipe \/ GetCall

SpecIO == InitIO /\ [][NextIO]_vars

----------------------------------------------------------------------------
(* The heap.  mem.bufs maps the address of every buffer in use to the     *)
(* buffer, [cells, owner], owner being the address of the buffer whose     *)
(* cell points to it (0 for the buffer a convert_cpp_c call returns).      *)
(* mem.bad collects the memory errors made so far.  Address 0 is NULL.     *)
(* The allocator serves the allocations of one convert_cpp_c call from a   *)
(* region of Region addresses, a region no buffer in use lies in.          *)

LiveAddrs(m) == DOMAIN m.bufs

Min(S) == CHOOSE x \in S : \A y \in S : x <= y

\* new[]: the lowest address of the region above base that is not in use
Alloc(m, cells, owner, base) ==
    LET a   == Min(((base + 1)..(base + Region)) \ LiveAddrs(m))
        buf == [cells |-> cells, owner |-> owner]
    IN  [mem  |-> [m EXCEPT !.bufs = [x \in LiveAddrs(m) \cup {a} |->
                                         IF x = a THEN buf ELSE m.bufs[x]]],
         addr |-> a]

Valid(m, a) == a \in LiveAddrs(m)

\* delete[] a
Delete(m, a) ==
    IF Valid(m, a)
    THEN [m EXCEPT !.bufs = [x \in LiveAddrs(m) \ {a} |-> m.bufs[x]]]
    ELSE [m EXCEPT !.bad = @ \cup {"free of a buffer not allocated"}]

\* ptr[i] (i counts from 0): the cell, and the heap with the error noted
\* when the read is outside a live buffer
Load(m, a, i) ==
    IF ~Valid(m, a)
    THEN [mem |-> [m EXCEPT !.bad = @ \cup {"read of a freed buffer"}],
          ok |-> FALSE, cell |-> 0]
    ELSE IF i + 1 > Len(m.bufs[a].cells)
    THEN [mem |-> [m EXCEPT !.bad = @ \cup {"read past the end"}],
          ok |-> FALSE, cell |-> 0]
    ELSE [mem |-> m, ok |-> TRUE, cell |-> m.bufs[a].cells[i + 1]]

\* is Data<t, n>::thisCType a pointer
IsPointer(t, n) == n > 0 \/ t = "string"

\* NULL converted to Data<t, n>::thisCType, the type of a cell of a
\* Data<t, n+1> buffer
Null(t, n) ==
    IF IsPointer(t, n) THEN 0
    ELSE CASE t = "int" -> 0
           [] t = "bool" -> FALSE
           [] t = "real" -> Real(0, 0)

\* what a cell of a new[] buffer holds before it is assigned
Garbage(t, n) ==
    IF IsPointer(t, n) THEN -1
    ELSE CASE t = "int" -> 1
           [] t = "bool" -> TRUE
           [] t = "real" -> Real(1, 0)

----------------------------------------------------------------------------
(* Data<t, dimension>::convert_cpp_c: [mem, ptr, bufs], the heap after the *)
(* call, the C value returned and the addresses it allocated               *)

RECURSIVE ConvertCppC(_, _, _, _, _, _)
RECURSIVE FillCells(_, _, _, _, _, _, _, _)
\* "for(i...) ptr[i] = Data<t, n-1>::convert_cpp_c(data[i])", from index i
\* (counting from 1), then "ptr[data.size()] = NULL"
FillCells(t, n, data, i, m, addr, bufs, base) ==
    IF i > Len(data)
    THEN [mem  |-> [m EXCEPT !.bufs[addr].cells[i] = Null(t, n - 1)],
          ptr  |-> addr,
          bufs |-> bufs]
    ELSE LET r == ConvertCppC(t, n - 1, data[i], m, addr, base)
         IN  FillCells(t, n, data, i + 1,
                       [r.mem EXCEPT !.bufs[addr].cells[i] = r.ptr],
                       addr, bufs \cup r.bufs, base)

\* Data<std::string,0>::convert_cpp_c: new char[length + 1], the bytes, 0
StringToC(data, m, owner, base) ==
    LET a == Alloc(m, data \o <<0>>, owner, base)
    IN  [mem |-> a.mem, ptr |-> a.addr, bufs |-> {a.addr}]

\* Data<t, n>::convert_cpp_c for n >= 1.  Line 134 reads
\* "new prevCType*[data.size() + 1]" and is assigned to a prevCType*: the
\* buffer is modelled as data.size() + 1 cells of prevCType.
ArrayToC(t, n, data, m, owner, base) ==
    LET a == Alloc(m, Repeat(Garbage(t, n - 1), Len(data) + 1), owner, base)
    IN  FillCells(t, n, data, 1, a.mem, a.addr, {a.addr}, base)

ConvertCppC(t, n, data, m, owner, base) ==
    IF n > 0 THEN ArrayToC(t, n, data, m, owner, base)
    ELSE IF t = "string" THEN StringToC(data, m, owner, base)
    ELSE [mem |-> m, ptr |-> data, bufs |-> {}]

----------------------------------------------------------------------------
(* Data<t, dimension>::convert_c_cpp: [mem, val] *)

RECURSIVE ConvertCCpp(_, _, _, _)
RECURSIVE ScanCells(_, _, _, _, _, _)
\* "for(i=0; data[i] != NULL; i++) vec.push_back(convert_c_cpp(data[i]))"
ScanCells(t, n, ptr, i, m, vec) ==
    LET c == Load(m, ptr, i)
    IN  IF ~c.ok \/ c.cell = Null(t, n - 1) THEN [mem |-> c.mem, val |-> vec]
        ELSE LET r == ConvertCCpp(t, n - 1, c.cell, c.mem)
             IN  ScanCells(t, n, ptr, i + 1, r.mem, Append(vec, r.val))

RECURSIVE ScanChars(_, _, _, _)
\* std::string(const char*): the bytes before the first 0
ScanChars(ptr, i, m, str) ==
    LET c == Load(m, ptr, i)
    IN  IF ~c.ok \/ c.cell = 0 THEN [mem |-> c.mem, val |-> str]
        ELSE ScanChars(ptr, i + 1, c.mem, Append(str, c.cell))

ConvertCCpp(t, n, ptr, m) ==
    IF n > 0 THEN ScanCells(t, n, ptr, 0, m, <<>>)
    ELSE IF t = "string" THEN ScanChars(ptr, 0, m, <<>>)
    ELSE [mem |-> m, val |-> ptr]

----------------------------------------------------------------------------
(* Data<t, dimension>::superfree: [mem, log], log being the buffers        *)
(* deleted, in the order of their deletion, each with its owner            *)

RECURSIVE Superfree(_, _, _, _, _)
RECURSIVE FreeCells(_, _, _, _, _, _)
\* a superfree that deletes the outer buffer and none of its sub-buffers
FreeCellsShallow(t, n, ptr, i, m, log) ==
    [mem |-> Delete(m, ptr),
     log |-> Append(log, [addr |-> ptr,
                          owner |-> IF Valid(m, ptr)
                                    THEN m.bufs[ptr].owner ELSE 0])]

\* "for(i=0; ptr[i] != NULL; i++) superfree(ptr[i])", then "delete[] ptr"
FreeCells(t, n, ptr, i, m, log) ==
    LET c == Load(m, ptr, i)
    IN  IF ~c.ok \/ c.cell = Null(t, n - 1)
        THEN [mem |-> Delete(c.mem, ptr),
              log |-> Append(log, [addr |-> ptr,
                                   owner |-> IF Valid(m, ptr)
                                             THEN m.bufs[ptr].owner ELSE 0])]
        ELSE LET r == Superfree(t, n - 1, c.cell, c.mem, log)
             IN  FreeCells(t, n, ptr, i + 1, r.mem, r.log)

\* Data<std::string,0>::superfree: "delete[] ptr"
StringFree(ptr, m, log) ==
    [mem |-> Delete(m, ptr),
     log |-> Append(log, [addr |-> ptr,
                          owner |-> IF Valid(m, ptr)
                                    THEN m.bufs[ptr].owner ELSE 0])]

Superfree(t, n, ptr, m, log) ==
    IF n > 0 THEN FreeCells(t, n, ptr, 0, m, log)
    ELSE IF t = "string" THEN StringFree(ptr, m, log)
    ELSE [mem |-> m, log |-> log]

----------------------------------------------------------------------------
(* The foreign-function boundary: a caller converts values, reads them     *)
(* back and releases each convert_cpp_c result once                        *)

FfiValues(t, n) ==
    IF n > 0 THEN Reps(t, n)
    ELSE {ElemA(t), ElemB(t)} \cup (IF t = "string" THEN {<<>>} ELSE {})

\* the wire codec is not in use
IoIdle ==
    /\ charSigned = FALSE
    /\ out = <<>>
    /\ written = NoCall
    /\ inp = IStream(<<>>)
    /\ got = NoCall

InitFFI == IoIdle /\ FfiIdle /\ RandIdle /\ ValIdle

\* the base of the lowest region none of the buffers held lies in
FreeRegion ==
    Min({b \in {k * Region : k \in 0..MaxHeld} :
            \A k \in 1..Len(held) : held[k].base # b})

\* ptr = Data<t,n>::convert_cpp_c(x)
ConvertCppCCall ==
    /\ Len(held) < MaxHeld
    /\ \E t \in Types, n \in Dims :
         \E x \in FfiValues(t, n) :
            LET r == ConvertCppC(t, n, x, mem, 0, FreeRegion)
            IN  /\ mem' = r.mem
                /\ held' = Append(held, [t |-> t, n |-> n, x |-> x,
                                         ptr |-> r.ptr, bufs |-> r.bufs,
                                         base |-> FreeRegion])
                /\ last' = [kind |-> "to_c", t |-> t, n |-> n, x |-> x,
                            ptr |-> r.ptr]
    /\ UNCHANGED <<ioVars, randVars, valVars>>

\* Data<t,n>::convert_c_cpp(ptr) on a buffer the caller holds
ConvertCCppCall ==
    /\ \E k \in 1..Len(held) :
         LET h == held[k]
             r == ConvertCCpp(h.t, h.n, h.ptr, mem)
         IN  /\ mem' = r.mem
             /\ last' = [kind |-> "to_cpp", t |-> h.t, n |-> h.n, x |-> h.x,
                         val |-> r.val,
                         released |-> LiveAddrs(mem) \ LiveAddrs(r.mem)]
    /\ UNCHANGED <<ioVars, held, randVars, valVars>>

\* Data<t,n>::superfree(ptr) on a buffer the caller holds, which it then
\* no longer holds
SuperfreeCall ==
    /\ \E k \in 1..Len(held) :
         LET h == held[k]
             r == Superfree(h.t, h.n, h.ptr, mem, <<>>)
         IN  /\ mem' = r.mem
             /\ last' = [kind |-> "free", t |-> h.t, n |-> h.n, x |-> h.x,
                         bufs |-> h.bufs, log |-> r.log]
             /\ held' = SubSeq(held, 1, k - 1) \o SubSeq(held, k + 1, Len(held))
    /\ UNCHANGED <<ioVars, randVars, valVars>>

NextFFI == ConvertCppCCall \/ ConvertCCppCall \/ SuperfreeCall

SpecFFI == InitFFI /\ [][NextFFI]_vars

----------------------------------------------------------------------------
(* The random engine.  std::mt19937_64 is modelled by a full-period linear *)
(* congruential generator on words of WordBits bits: what matters of it is *)
(* that a draw is a function of the state, and that seeding replaces the   *)
(* whole state.                                                            *)

\* the engine after one step
Advance(e) == (5 * e + 3) % Modulus

\* mersenneTwister(): the word drawn and the engine after it
Draw(e) == [eng |-> Advance(e), word |-> Advance(e)]

\* the characters of genscript tokens
Code(c) ==
    CASE c = "3" -> 51
      [] c = "5" -> 53
      [] c = "|" -> 124

RECURSIVE JoinAll(_)
\* "for(arg: genscript){ joined += arg; joined += '|'; }"
JoinAll(genscript) ==
    IF genscript = <<>> THEN <<>>
    ELSE Head(genscript) \o <<"|">> \o JoinAll(Tail(genscript))

\* std::string::pop_back
PopBack(str) == SubSeq(str, 1, Len(str) - 1)

RECURSIVE SeedSeqState(_, _)
\* the engine state std::seed_seq generates from the characters given
SeedSeqState(str, h) ==
    IF str = <<>> THEN h
    ELSE SeedSeqState(Tail(str), (31 * h + Code(Head(str))) % Modulus)

\* a seeding that keeps part of the state the engine had
EngineSeedKeeping(e, str) == (e + SeedSeqState(str, Len(str))) % Modulus

\* mersenneTwister.seed(seed): the new state of an engine in state e
EngineSeed(e, str) == SeedSeqState(str, Len(str))

\* a seed that seeds the engine before it looks at genscript
SeedUnchecked(e, genscript) ==
    [eng |-> EngineSeed(e, PopBack(JoinAll(genscript))),
     exc |-> IF genscript = <<>> THEN "Empty genscript given" ELSE "none",
     val |-> 0]

\* TCH::seed(genscript) on an engine in state e
Seed(e, genscript) ==
    IF genscript = <<>>
    THEN [eng |-> e, exc |-> "Empty genscript given", val |-> 0]
    ELSE [eng |-> EngineSeed(e, PopBack(JoinAll(genscript))),
          exc |-> "none", val |-> 0]

RECURSIVE UniformInt(_, _, _)
\* std::uniform_int_distribution<int>(l, r)(mersenneTwister), l <= r: draw
\* until the word is below the largest multiple of the number of values
UniformInt(e, l, r) ==
    LET uerange == r - l + 1
        scaling == Modulus \div uerange
        past    == uerange * scaling
        d       == Draw(e)
    IN  IF d.word >= past THEN UniformInt(d.eng, l, r)
        ELSE [eng |-> d.eng, exc |-> "none", val |-> l + d.word \div scaling]

\* TCH::randint(l, r)
Randint(e, l, r) == UniformInt(e, l, r)

\* TCH::randreal(l, r): l + (r - l) * word / Modulus, as a fraction
Randreal(e, l, r) ==
    LET d == Draw(e)
    IN  [eng |-> d.eng, exc |-> "none",
         val |-> [num |-> l * Modulus + (r - l) * d.word, den |-> Modulus]]

\* TCH::randbool()
Randbool(e) ==
    LET d == UniformInt(e, 0, 1)
    IN  [eng |-> d.eng, exc |-> "none", val |-> (d.val # 0)]

\* std::swap(result[i1], result[i2]), indices counted from 0
Swap(result, i1, i2) ==
    [result EXCEPT ![i1 + 1] = result[i2 + 1], ![i2 + 1] = result[i1 + 1]]

\* a loop body that never leaves result[i1] where it is: a draw of i1
\* swaps with index 0
PermStepNoFixed(result, i1, i2) ==
    Swap(result, i1, IF i2 = i1 THEN 0 ELSE i2)

\* a loop body that copies result[i2] to result[i1] instead of swapping
PermStepCopy(result, i1, i2) == [result EXCEPT ![i1 + 1] = result[i2 + 1]]

\* "if(i1 != i2) std::swap(result[i1], result[i2])"
PermStep(result, i1, i2) ==
    IF i1 # i2 THEN Swap(result, i1, i2) ELSE result

RECURSIVE PermLoop(_, _, _)
\* "for(i1 = size-1; i1 >= 0; i1--)" of generatePermutation, from i1
PermLoop(e, result, i1) ==
    IF i1 < 0 THEN [eng |-> e, exc |-> "none", val |-> result]
    ELSE LET d == Randint(e, 0, i1)
         IN  PermLoop(d.eng, PermStep(result, i1, d.val), i1 - 1)

RECURSIVE PermLoopDrawn(_, _, _)
\* the same loop when the calls of randint return the values of draws, in
\* their order
PermLoopDrawn(result, i1, draws) ==
    IF i1 < 0 THEN result
    ELSE PermLoopDrawn(PermStep(result, i1, Head(draws)), i1 - 1, Tail(draws))

\* TCH::generatePermutation(size) when randint returns the values of draws
GeneratePermutationDrawn(size, draws) ==
    IF size <= 0
    THEN [exc |-> "Non-positive size given", val |-> <<>>]
    ELSE [exc |-> "none",
          val |-> PermLoopDrawn([i \in 1..size |-> i - 1], size - 1, draws)]

\* TCH::generatePermutation(size)
GeneratePermutation(e, size) ==
    IF size <= 0
    THEN [eng |-> e, exc |-> "Non-positive size given", val |-> <<>>]
    ELSE PermLoop(e, [i \in 1..size |-> i - 1], size - 1)

(* The loops of shuffle work on [arr, moved, swaps, marks]: the array, the *)
(* vector moved, and two history fields, the iter_swap calls made (each   *)
(* <<itprev, itafter>>) and the indices of moved set to true, in order.    *)
(* Iterators are offsets into arr, counted from 0.                         *)

\* "moved[k] = true"
Mark(st, k) == [st EXCEPT !.moved[k + 1] = TRUE, !.marks = Append(@, k)]

\* an assignment "*itprev = *itafter" in place of the swap
IterAssign(st, itprev, itafter) ==
    [st EXCEPT !.arr[itprev + 1] = st.arr[itafter + 1],
               !.swaps = Append(@, <<itprev, itafter>>)]

\* "std::iter_swap(itprev, itafter)"
IterSwap(st, itprev, itafter) ==
    [st EXCEPT !.arr = Swap(@, itprev, itafter),
               !.swaps = Append(@, <<itprev, itafter>>)]

RECURSIVE CycleWalk(_, _, _, _, _, _)
\* the "while(itafter != it)" loop of shuffle and the statement after it
CycleWalk(st, perm, begin, it, itprev, itafter) ==
    IF itafter # it
    THEN CycleWalk(IterSwap(Mark(st, itprev - begin), itprev, itafter),
                   perm, begin, it, itafter,
                   begin + perm[itafter - begin + 1])
    ELSE Mark(st, itprev - begin)

RECURSIVE ShuffleLoop(_, _, _, _, _)
\* "for(it = begin; it != end; it++)" of shuffle, from it
ShuffleLoop(st, perm, begin, it, end) ==
    IF it = end THEN st
    ELSE IF st.moved[it - begin + 1]
    THEN ShuffleLoop(st, perm, begin, it + 1, end)
    ELSE ShuffleLoop(CycleWalk(st, perm, begin, it, it,
                               begin + perm[it - begin + 1]),
                     perm, begin, it + 1, end)

\* shuffle after "perm = generatePermutation(size)": moved is all false
ShuffleApply(arr, perm, begin, end) ==
    ShuffleLoop([arr |-> arr, moved |-> [i \in 1..(end - begin) |-> FALSE],
                 swaps |-> <<>>, marks |-> <<>>],
                perm, begin, begin, end)

\* TCH::shuffle(arr.begin() + begin, arr.begin() + end): val is arr after it
Shuffle(e, arr, begin, end) ==
    LET size == end - begin
    IN  IF size < 0
        THEN [eng |-> e, exc |-> "End iterator is at before begin iterator",
              val |-> arr]
        ELSE IF size = 0 THEN [eng |-> e, exc |-> "none", val |-> arr]
        ELSE LET p == GeneratePermutation(e, size)
             IN  [eng |-> p.eng, exc |-> "none",
                  val |-> ShuffleApply(arr, p.val, begin, end).arr]

\* what shuffle returns with after the loops ended in st
Shuffled(perm, st) ==
    [exc |-> "none", val |-> st.arr, perm |-> perm, swaps |-> st.swaps,
     marks |-> st.marks]

\* TCH::shuffle when randint returns the values of draws
ShuffleDrawn(arr, begin, end, draws) ==
    LET size == end - begin
        perm == GeneratePermutationDrawn(size, draws).val
    IN  IF size < 0
        THEN [exc |-> "End iterator is at before begin iterator",
              val |-> arr, perm |-> <<>>, swaps |-> <<>>, marks |-> <<>>]
        ELSE IF size = 0
        THEN [exc |-> "none", val |-> arr, perm |-> <<>>, swaps |-> <<>>,
              marks |-> <<>>]
        ELSE Shuffled(perm, ShuffleApply(arr, perm, begin, end))

----------------------------------------------------------------------------
(* Two runs of a program that uses tchrand.hpp.  A call is made by one run *)
(* or by both runs alike (the same function, the same arguments); what the *)
(* two runs do before a common seed they do one call of one run at a time. *)

\* genscript tokens and the lists of them a run seeds with
Scripts ==
    {<<>>, << <<"5">> >>, << <<"5">>, <<"3">> >>, << <<"3">>, <<"5">> >>,
     << <<"5", "3">> >>}

\* the runs that make a call
Callers == {{1}, {2}, Runs}

\* the array a run shuffles a part of
Array == SubSeq(<<"a", "b", "c", "d", "e">>, 1, MaxSize)

\* a run that does not take part in a call
Idle == [exc |-> "idle", val |-> 0]

\* the runs of who have made a call, with outcome res[r] in run r; size is
\* the size of the argument the function checks (the number of tokens of
\* genscript, size, the distance from begin to end), 0 where none is
Called(kind, op, size, who, res) ==
    /\ eng' = [r \in Runs |-> IF r \in who THEN res[r].eng ELSE eng[r]]
    /\ ret' = [kind |-> kind, op |-> op, size |-> size, who |-> who,
               out |-> [r \in Runs |->
                          IF r \in who
                          THEN [exc |-> res[r].exc, val |-> res[r].val]
                          ELSE Idle]]

\* a sampling call, made by one run or, after a common seed, by both alike
Sampled(op, size, who, res) ==
    /\ who = Runs => script # <<>>
    /\ Called("sample", op, size, who, res)
    /\ script' = IF who = Runs THEN script ELSE <<>>
    /\ UNCHANGED <<seeded, ioVars, ffiVars, valVars>>

\* TCH::seed(genscript)
SeedCall ==
    \E who \in Callers, genscript \in Scripts :
       /\ Called("seed", "seed", Len(genscript), who,
                 [r \in Runs |-> Seed(eng[r], genscript)])
       /\ seeded' = [r \in Runs |->
                       seeded[r] \/ (r \in who /\ genscript # <<>>)]
       /\ script' = IF who # Runs THEN <<>>
                    ELSE IF genscript # <<>> THEN genscript ELSE script
       /\ UNCHANGED <<ioVars, ffiVars, valVars>>

\* TCH::randint<int>(l, r)
RandintCall ==
    \E who \in Callers, l \in 0..1, r \in 0..MaxSize :
       /\ l <= r
       /\ Sampled("randint", 0, who,
                  [k \in Runs |-> Randint(eng[k], l, r)])

\* TCH::randreal<double>(l, r)
RandrealCall ==
    \E who \in Callers, l \in 0..1 :
       Sampled("randreal", 0, who,
               [k \in Runs |-> Randreal(eng[k], l, MaxSize)])

\* TCH::randbool()
RandboolCall ==
    \E who \in Callers :
       Sampled("randbool", 0, who, [k \in Runs |-> Randbool(eng[k])])

\* TCH::generatePermutation(size)
GeneratePermutationCall ==
    \E who \in Callers, size \in -1..MaxSize :
       Sampled("generatePermutation", size, who,
               [k \in Runs |-> GeneratePermutation(eng[k], size)])

\* TCH::shuffle(begin, end) on iterators of an array
ShuffleCall ==
    \E who \in Callers, begin \in 0..1, end \in 0..MaxSize :
       Sampled("shuffle", end - begin, who,
               [k \in Runs |-> Shuffle(eng[k], Array, begin, end)])

NextRand ==
    \/ SeedCall
    \/ RandintCall
    \/ RandrealCall
    \/ RandboolCall
    \/ GeneratePermutationCall
    \/ ShuffleCall

InitRand == IoIdle /\ FfiIdle /\ RandIdle /\ ValIdle

SpecRand == InitRand /\ [][NextRand]_vars

----------------------------------------------------------------------------
(* A run whose engine may draw anything: every call of randint(0, i1)      *)
(* returns some value of 0..i1.                                            *)

RECURSIVE DrawSeqs(_)
\* what the calls randint(0, i1), randint(0, i1 - 1), ..., randint(0, 0)
\* may return
DrawSeqs(i1) ==
    IF i1 < 0 THEN {<<>>}
    ELSE {<<i2>> \o rest : i2 \in 0..i1, rest \in DrawSeqs(i1 - 1)}

\* the offset a caller may want the values to start at:
\* generatePermutation takes no such argument
Offsets == 0..1

\* TCH::generatePermutation(size)
GeneratePermutationAny ==
    /\ \E size \in -1..MaxPerm, offset \in Offsets :
         \E draws \in DrawSeqs(size - 1) :
            ret' = [kind |-> "drawn", op |-> "generatePermutation",
                    size |-> size, offset |-> offset, draws |-> draws,
                    out |-> GeneratePermutationDrawn(size, draws)]
    /\ UNCHANGED <<eng, seeded, script, ioVars, ffiVars, valVars>>

\* the arrays shuffled: one of distinct elements, one of two elements
\* taking turns
ArraysAny ==
    {SubSeq(<<"a", "b", "c", "d", "e", "f">>, 1, MaxPerm),
     [i \in 1..MaxPerm |-> IF i % 2 = 1 THEN "a" ELSE "b"]}

\* TCH::shuffle(begin, end) on iterators of an array
ShuffleAny ==
    /\ \E arr \in ArraysAny, begin \in 0..1, end \in 0..MaxPerm :
         \E draws \in DrawSeqs(end - begin - 1) :
            ret' = [kind |-> "drawn", op |-> "shuffle", arr |-> arr,
                    begin |-> begin, end |-> end, draws |-> draws,
                    out |-> ShuffleDrawn(arr, begin, end, draws)]
    /\ UNCHANGED <<eng, seeded, script, ioVars, ffiVars, valVars>>

NextPerm == GeneratePermutationAny \/ ShuffleAny

InitPerm == IoIdle /\ FfiIdle /\ RandIdle /\ ValIdle

SpecPerm == InitPerm /\ [][NextPerm]_vars

----------------------------------------------------------------------------
(* A validator that is given a two-level array and calls validateRectangle *)

\* the arrays given: up to MaxRows rows of up to MaxLen elements
Tables == SeqsUpTo(SeqsUpTo({0, 1}, MaxLen), MaxRows)

InitRect ==
    /\ IoIdle
    /\ FfiIdle
    /\ RandIdle
    /\ rows \in Tables
    /\ rect = NoCall
    /\ CheckIdle

\* TCH::validateRectangle(rows)
ValidateRectangleCall ==
    /\ rect' = [kind |-> "validateRectangle", val |-> rows,
                result |-> ValidateRectangle(rows)]
    /\ UNCHANGED <<rows, checkVars, ioVars, ffiVars, randVars>>

NextRect == ValidateRectangleCall

SpecRect == InitRect /\ [][NextRect]_vars

----------------------------------------------------------------------------
(* validate of Examples/SortTheList/validator.cpp, one TCH::assert call a *)
(* step.                                                                   *)

\* longest vector given
MaxArr == 3

\* "const int limit"
Limit == 1000000000

\* the largest size validate takes
MaxArrSize == 1000000

\* "arr size = %d (out of range)"
SizeMessage ==
    <<"a", "r", "r", " ", "s", "i", "z", "e", " ", "=", " ", "%", "d", " ",
      "(", "o", "u", "t", " ", "o", "f", " ", "r", "a", "n", "g", "e", ")">>

\* "arr[%d] = %d (out of range)"
ElementMessage ==
    <<"a", "r", "r", "[", "%", "d", "]", " ", "=", " ", "%", "d", " ",
      "(", "o", "u", "t", " ", "o", "f", " ", "r", "a", "n", "g", "e", ")">>

\* the vectors validate is given: elements within and beyond the limit
Inputs == SeqsUpTo({7, -1000000000, 2000000000, -1000000001}, MaxArr)

InitVal ==
    /\ IoIdle
    /\ FfiIdle
    /\ RandIdle
    /\ rows = <<>>
    /\ rect = NoCall
    /\ input \in Inputs
    /\ stmt = "size"
    /\ idx = 0
    /\ asserted = <<>>
    /\ thrown = NoThrow

\* validate has called TCH::assert(condition, message, args ...), which
\* ended as r tells; on return validate goes on as next and i tell
AssertCall(which, condition, args, r, next, i) ==
    /\ asserted' = Append(asserted, [which |-> which,
                                      condition |-> condition, args |-> args])
    /\ thrown' = r
    /\ stmt' = IF r.exc THEN "thrown" ELSE next
    /\ idx' = IF r.exc THEN idx ELSE i
    /\ UNCHANGED <<input, rows, rect, ioVars, ffiVars, randVars>>

\* the assert on arr.size()
ValidateSize ==
    /\ stmt = "size"
    /\ AssertCall("size", 1 <= Len(input) /\ Len(input) <= MaxArrSize,
                  <<Len(input)>>,
                  assert(1 <= Len(input) /\ Len(input) <= MaxArrSize,
                         SizeMessage, <<Len(input)>>),
                  "loop", 0)

\* one turn of the loop: the assert on arr[i], then i++
ValidateElement ==
    /\ stmt = "loop"
    /\ idx < Len(input)
    /\ AssertCall("element",
                  -Limit <= input[idx + 1] /\ input[idx + 1] <= Limit,
                  <<idx, input[idx + 1]>>,
                  assert(-Limit <= input[idx + 1] /\ input[idx + 1] <= Limit,
                         ElementMessage, <<idx, input[idx + 1]>>),
                  "loop", idx + 1)

\* the loop ends and validate returns
ValidateReturn ==
    /\ stmt = "loop"
    /\ idx >= Len(input)
    /\ stmt' = "returned"
    /\ UNCHANGED <<input, idx, asserted, thrown, rows, rect, ioVars,
                   ffiVars, randVars>>

NextVal == ValidateSize \/ ValidateElement \/ ValidateReturn

SpecVal == InitVal /\ [][NextVal]_vars

----------------------------------------------------------------------------
(* Claims about the wire codec *)

\* the last get read the stream the last put wrote, with put's type and dimension
ReadBack ==
    /\ got.kind = "get"
    /\ written.kind = "put"
    /\ got.before = IStream(out)
    /\ got.t = written.t
    /\ got.n = written.n

\* C1: a value written by put on an empty stream and read back by get of
\* the same type and dimension is returned unchanged
C1_WireRoundTrip ==
    ReadBack => (got.exc = "none" /\ got.val = written.v)

\* C6: a get during which the stream runs out of tokens fails (with any
\* exception at all) instead of returning a value
C6_TruncatedFails ==
    (got.kind = "get" /\ got.after.fail /\ got.after.eof)
        => got.exc # "none"

\* C7: a get that reads a negative array size fails (with any exception
\* at all) and reads no token after that size
C7_NegativeSizeFails ==
    (got.kind = "get" /\ got.n >= 1 /\ got.after.negpos # 0)
        => /\ got.exc # "none"
           /\ got.after.pos <= SkipWs(got.after.buf, got.after.negpos)

RECURSIVE CodeLines(_)
\* one token for each byte of s, the byte's value in 0..255
CodeLines(s) ==
    IF s = <<>> THEN <<>> ELSE Line(FormatNat(Head(s))) \o CodeLines(Tail(s))

\* the tokens put should write for string s: its length, then each byte's
\* code in 0..255
StringTokens(s) ==
    Line(FormatNat(Len(s))) \o CodeLines(s)

\* C8: put writes a string as its length followed by the code, in 0..255,
\* of each of its characters
C8_StringEncoding ==
    (written.kind = "put" /\ written.t = "string" /\ written.n = 0)
        => out = StringTokens(written.v)

RECURSIVE CodesPresent(_, _)
\* the stream's next k tokens are integers
CodesPresent(in, k) ==
    IF k <= 0 THEN TRUE
    ELSE LET x == ExtractInt(in)
         IN  x.set /\ ~x.in.fail /\ CodesPresent(x.in, k - 1)

RECURSIVE HasBadCode(_, _)
\* among the stream's next k integer tokens, one is outside 0..255
HasBadCode(in, k) ==
    IF k <= 0 THEN FALSE
    ELSE LET x == ExtractInt(in)
         IN  x.val \notin 0..255 \/ HasBadCode(x.in, k - 1)

\* C9: get of a string fails (with any exception at all) when one of the
\* declared character codes, all present in the stream, is outside 0..255
C9_CodeRangeChecked ==
    (/\ got.kind = "get" /\ got.t = "string" /\ got.n = 0
     /\ LET len == ExtractInt(got.before)
        IN  /\ len.set /\ ~len.in.fail /\ len.val >= 0
            /\ CodesPresent(len.in, len.val)
            /\ HasBadCode(len.in, len.val))
        => got.exc # "none"

\* C10: with rectangularity asked for, a put of a two-level array with rows
\* of different lengths fails with a ShapeError, and so does a get that
\* decodes one
C10_RaggedRejected ==
    /\ (written.kind = "put" /\ written.n = 2 /\ written.rect
          /\ ~ValidateRectangle(written.v))
         => written.exc = "ShapeError"
    /\ (got.kind = "get" /\ got.n = 2 /\ got.rect /\ got.exc = "none"
          => ValidateRectangle(got.val))

----------------------------------------------------------------------------
(* Claims about the foreign-function converter *)

\* C2: convert_c_cpp of what convert_cpp_c returned for x is x
C2_ForeignRoundTrip ==
    last.kind = "to_cpp" => last.val = last.x

HeldBufs == UNION {held[k].bufs : k \in 1..Len(held)}

----------------------------------------------------------------------------
(* Claims about the random engine *)

\* C4: two runs that have called seed with the same non-empty list,
\* whatever each did before, and have made the same sampling calls since,
\* got the same result at every call and have engines in the same state
C4_SeedingDeterminism ==
    script # <<>> =>
        /\ eng[1] = eng[2]
        /\ ret.who = Runs
        /\ ret.out[1] = ret.out[2]

\* after a common seed both runs shuffled a three-element array, away from
\* its order and alike
C4_Witness ==
    /\ script = << <<"5">>, <<"3">> >>
    /\ ret.kind = "sample"
    /\ ret.op = "shuffle"
    /\ Len(ret.out[1].val) = 3
    /\ ret.out[1].val # <<"a", "b", "c">>
    /\ ret.out[2].val = ret.out[1].val

\* C5: a sampling call returns normally only in a run in which a seed call
\* with a non-empty list has completed
C5_SeedBeforeSample ==
    \A r \in Runs :
        (ret.kind = "sample" /\ r \in ret.who /\ ret.out[r].exc = "none")
            => seeded[r]

----------------------------------------------------------------------------
(* Claims about validators *)

\* C11: validateRectangle returns true exactly when every row is as long as
\* the first one (so for no row and for one row), and leaves the array as
\* it was
C11_RectangleIff ==
    rect.kind = "validateRectangle" =>
        /\ rect.result =
             (\A i \in 1..Len(rect.val) : Len(rect.val[i]) = Len(rect.val[1]))
        /\ Len(rect.val) <= 1 => rect.result
        /\ (\E i, j \in 1..Len(rect.val) :
               Len(rect.val[i]) # Len(rect.val[j])) => ~rect.result
        /\ rows = rect.val

\* three rows, the second as long as the first and the third not: false
C11_Witness ==
    /\ rect.kind = "validateRectangle"
    /\ Len(rect.val) = 3
    /\ Len(rect.val[2]) = Len(rect.val[1])
    /\ Len(rect.val[3]) # Len(rect.val[1])
    /\ ~rect.result

----------------------------------------------------------------------------
(* Claims about permutations and shuffle *)

\* does seq hold each value of S exactly once
HoldsOnce(seq, S) ==
    /\ Len(seq) = Cardinality(S)
    /\ \A v \in S : Cardinality({i \in 1..Len(seq) : seq[i] = v}) = 1

\* a generatePermutation call with size > 0 has returned
PermReturned ==
    /\ ret.kind = "drawn"
    /\ ret.op = "generatePermutation"
    /\ ret.size > 0

\* C12 as stated: generatePermutation with size > 0 returns, whatever is
\* drawn, each integer of offset..offset+size-1 exactly once
C12_PermutationFromOffset ==
    PermReturned =>
        /\ ret.out.exc = "none"
        /\ HoldsOnce(ret.out.val, ret.offset..(ret.offset + ret.size - 1))

\* C12 as the code has it: generatePermutation(size) with size > 0 returns,
\* whatever is drawn, each integer of 0..size-1 exactly once
C12_Permutation ==
    PermReturned =>
        /\ ret.out.exc = "none"
        /\ HoldsOnce(ret.out.val, 0..(ret.size - 1))

\* a permutation of size 3 that is a cycle of all three indices
C12_Witness ==
    /\ PermReturned
    /\ ret.size = 3
    /\ ret.out.val = <<1, 2, 0>>

RECURSIVE Factorial(_)
Factorial(n) == IF n <= 1 THEN 1 ELSE n * Factorial(n - 1)

\* are the elements of seq pairwise distinct
Distinct(seq) == \A i, j \in 1..Len(seq) : seq[i] = seq[j] => i = j

\* arr with the elements at offsets begin..end-1 reordered by f
Reordered(arr, begin, end, f) ==
    [i \in 1..Len(arr) |->
        IF begin < i /\ i <= end THEN arr[begin + f[i - begin]] ELSE arr[i]]

\* the orderings of the range begin..end-1 of arr
Orderings(arr, begin, end) ==
    {Reordered(arr, begin, end, f) : f \in Permutations(1..(end - begin))}

\* what shuffle leaves of arr for each outcome of the draws
Outcomes(arr, begin, end) ==
    [draws \in DrawSeqs(end - begin - 1) |->
        ShuffleDrawn(arr, begin, end, draws).val]

\* a shuffle call on a range of n >= 1 elements has returned
ShuffleReturned ==
    /\ ret.kind = "drawn"
    /\ ret.op = "shuffle"
    /\ ret.end - ret.begin >= 1

\* C13: for a range of n pairwise distinct elements, each of the n!
\* orderings of the range is what shuffle leaves for exactly one outcome of
\* the draws
C13_UniformShuffle ==
    (ShuffleReturned /\ Distinct(ret.arr)) =>
        LET oc == Outcomes(ret.arr, ret.begin, ret.end)
            os == Orderings(ret.arr, ret.begin, ret.end)
        IN  /\ Cardinality(os) = Factorial(ret.end - ret.begin)
            /\ ret.out.val \in os
            /\ \A o \in os :
                 Cardinality({d \in DOMAIN oc : oc[d] = o}) = 1

\* a range of three distinct elements shuffled to its reverse
C13_Witness ==
    /\ ShuffleReturned
    /\ Distinct(ret.arr)
    /\ ret.begin = 1
    /\ ret.end = 4
    /\ ret.out.val = << ret.arr[1], ret.arr[4], ret.arr[3], ret.arr[2] >>

\* the call ret tells of was given an argument the function rejects: an
\* empty genscript, a size that is not positive, an end before begin
InvalidCall(call) ==
    /\ call.kind \in {"seed", "sample"}
    /\ \/ call.op = "seed" /\ call.size = 0
       \/ call.op = "generatePermutation" /\ call.size <= 0
       \/ call.op = "shuffle" /\ call.size < 0

\* C14: seed with an empty list, generatePermutation with size <= 0 and
\* shuffle with end before begin throw, and leave the engine in the state
\* it was in and the array as it was
C14_InvalidArguments ==
    [][InvalidCall(ret') =>
          \A r \in ret'.who :
              /\ ret'.out[r].exc # "none"
              /\ eng'[r] = eng[r]
              /\ ret'.op = "shuffle" => ret'.out[r].val = Array]_vars

\* both runs, seeded, have called shuffle with end before begin
C14_Witness ==
    /\ InvalidCall(ret)
    /\ ret.op = "shuffle"
    /\ ret.who = Runs
    /\ seeded[1]
    /\ ret.out[1].exc # "none"

----------------------------------------------------------------------------
(* Claims about the boolean codec *)

\* the first token of text: its first run of characters that are not
\* whitespace, empty when there is none
FirstToken(text) ==
    SubSeq(text, SkipWs(text, 1), WordEnd(text, SkipWs(text, 1)) - 1)

\* the last call was Data<bool,0>::get
BoolRead == got.kind = "get" /\ got.t = "bool" /\ got.n = 0

\* the last call was Data<bool,0>::put
BoolWritten == written.kind = "put" /\ written.t = "bool" /\ written.n = 0

\* C15: Data<bool,0>::get returns true for the token "true", false for the
\* token "false" and throws for every other token and for no token;
\* Data<bool,0>::put writes the token "true" or "false" and a newline
C15_BooleanCodec ==
    /\ BoolRead =>
         CASE FirstToken(got.before.buf) = <<"t", "r", "u", "e">> ->
                  got.exc = "none" /\ got.val = TRUE
           [] FirstToken(got.before.buf) = <<"f", "a", "l", "s", "e">> ->
                  got.exc = "none" /\ got.val = FALSE
           [] OTHER -> got.exc # "none"
    /\ BoolWritten =>
         out = IF written.v THEN <<"t", "r", "u", "e", "\n">>
                            ELSE <<"f", "a", "l", "s", "e", "\n">>

\* put has written false and get has read it back as false
C15_Witness ==
    /\ BoolWritten
    /\ written.v = FALSE
    /\ BoolRead
    /\ got.before.buf = out
    /\ got.exc = "none"
    /\ got.val = FALSE

----------------------------------------------------------------------------
(* Claims about TCH::assert *)

\* the conditions validate checks on vector a, in the order it checks them
Conditions(a) ==
    <<1 <= Len(a) /\ Len(a) <= 1000000>>
        \o [k \in 1..Len(a) |-> -1000000000 <= a[k] /\ a[k] <= 1000000000]

\* how many of the conditions cs hold before the first that does not
RECURSIVE Passing(_)
Passing(cs) ==
    IF cs = <<>> \/ ~Head(cs) THEN 0 ELSE 1 + Passing(Tail(cs))

\* the message of the call c with its arguments put in
Diagnostic(c) ==
    IF c.which = "size"
    THEN <<"a", "r", "r", " ", "s", "i", "z", "e", " ", "=", " ">>
             \o FormatInt(c.args[1])
             \o <<" ", "(", "o", "u", "t", " ", "o", "f", " ",
                  "r", "a", "n", "g", "e", ")">>
    ELSE <<"a", "r", "r", "[">> \o FormatInt(c.args[1])
             \o <<"]", " ", "=", " ">> \o FormatInt(c.args[2])
             \o <<" ", "(", "o", "u", "t", " ", "o", "f", " ",
                  "r", "a", "n", "g", "e", ")">>

\* C16: an assert whose condition is true changes nothing and validate goes
\* on; an assert whose condition is false throws the message with its
\* arguments put in; so validate has evaluated its conditions in order up
\* to the first false one, throws there, and evaluates none after it
C16_AssertFailsFirst ==
    stmt # "idle" =>
        /\ \A k \in 1..Len(asserted) :
               asserted[k].condition = Conditions(input)[k]
        /\ IF stmt = "thrown"
           THEN /\ Len(asserted) = Passing(Conditions(input)) + 1
                /\ ~asserted[Len(asserted)].condition
                /\ thrown.exc
                /\ thrown.what = Diagnostic(asserted[Len(asserted)])
           ELSE /\ Len(asserted) <= Passing(Conditions(input))
                /\ thrown = NoThrow
                /\ stmt = "returned" =>
                       Len(asserted) = Len(Conditions(input))

\* validate has thrown at arr[1] of three elements, with arr[2] out of
\* range as well and never looked at
C16_Witness ==
    /\ stmt = "thrown"
    /\ Len(input) = 3
    /\ Len(asserted) = 3
    /\ ~Conditions(input)[4]
    /\ thrown.what = <<"a", "r", "r", "[", "1", "]", " ", "=", " ",
                       "2", "0", "0", "0", "0", "0", "0", "0", "0", "0",
                       " ", "(", "o", "u", "t", " ", "o", "f", " ",
                       "r", "a", "n", "g", "e", ")">>

----------------------------------------------------------------------------
(* Claims about shuffle on short ranges *)

\* C17: a shuffle of a range of 0 or 1 elements returns with the array as
\* it was and the engine in the state it was in, having drawn nothing
C17_ShortShuffleNoOp ==
    [][(ret'.kind = "sample" /\ ret'.op = "shuffle" /\ ret'.size \in {0, 1})
          => \A r \in ret'.who :
                 /\ ret'.out[r].exc = "none"
                 /\ ret'.out[r].val = Array
                 /\ eng'[r] = eng[r]]_vars

----------------------------------------------------------------------------
(* Claims about the cycle walk of shuffle *)

RECURSIVE Orbit(_, _, _)
\* the cycle of perm through index x, seen being the part known of it
Orbit(perm, x, seen) ==
    IF x \in seen THEN seen ELSE Orbit(perm, perm[x + 1], seen \cup {x})

\* the cycles of perm, each the set of its indices
Cycles(perm) == {Orbit(perm, x, {}) : x \in 0..(Len(perm) - 1)}

\* how many times v occurs in seq
Count(seq, v) == Cardinality({i \in 1..Len(seq) : seq[i] = v})

\* the swaps of sw made between two indices of cycle c of a range
\* starting at begin
SwapsIn(sw, c, begin) ==
    {k \in 1..Len(sw) : sw[k][1] - begin \in c /\ sw[k][2] - begin \in c}

\* the places of marks where the walk leaves one cycle of perm for another
Breaks(marks, perm) ==
    {k \in 1..(Len(marks) - 1) : marks[k + 1] # perm[marks[k] + 1]}

\* C18: shuffle on a range of n >= 1 elements with permutation perm marks
\* every index moved exactly once, following perm within a cycle and leaving
\* a cycle only when it is complete, makes (length - 1) swaps in each cycle
\* and no other, n minus the number of cycles in all, leaves at every index
\* x the element that was at perm[x], and leaves every element as many
\* times in the array as it was
C18_CycleApplication ==
    ShuffleReturned =>
        LET n == ret.end - ret.begin
            perm == ret.out.perm
        IN  /\ ret.out.exc = "none"
            /\ HoldsOnce(perm, 0..(n - 1))
            /\ HoldsOnce(ret.out.marks, 0..(n - 1))
            /\ Cardinality(Breaks(ret.out.marks, perm))
                   = Cardinality(Cycles(perm)) - 1
            /\ \A k \in Breaks(ret.out.marks, perm) :
                   Orbit(perm, ret.out.marks[k], {})
                       \subseteq {ret.out.marks[j] : j \in 1..k}
            /\ \A c \in Cycles(perm) :
                   Cardinality(SwapsIn(ret.out.swaps, c, ret.begin))
                       = Cardinality(c) - 1
            /\ Len(ret.out.swaps) = n - Cardinality(Cycles(perm))
            /\ \A x \in 0..(n - 1) :
                   ret.out.val[ret.begin + x + 1]
                       = ret.arr[ret.begin + perm[x + 1] + 1]
            /\ \A i \in 1..Len(ret.arr) :
                   (i <= ret.begin \/ i > ret.end) => ret.out.val[i] = ret.arr[i]
            /\ \A i \in 1..Len(ret.arr) :
                   Count(ret.out.val, ret.arr[i]) = Count(ret.arr, ret.arr[i])

\* a range of four elements shuffled by a permutation of two cycles of
\* length two: two swaps
C18_Witness ==
    /\ ShuffleReturned
    /\ ret.end - ret.begin = 4
    /\ Cardinality(Cycles(ret.out.perm)) = 2
    /\ \A c \in Cycles(ret.out.perm) : Cardinality(c) = 2
    /\ Len(ret.out.swaps) = 2

====
